---- MODULE Spec2Model ----
(***************************************************************************)
(* The weather application of app.py: the weather_record table, the four   *)
(* upstream helpers and the five HTTP handlers.  One action per handler;   *)
(* the request body and the answers of the upstream services are the       *)
(* inputs of the action.                                                   *)
(***************************************************************************)
EXTENDS Integers, Sequences, FiniteSets, TLC

VARIABLES
    records,              \* rows of the weather_record table, in rowid order
    clock,                \* the server clock read by datetime.utcnow()
    GOOGLE_MAPS_API_KEY,  \* TRUE iff the optional key is configured
    request,              \* the request handled last
    response,             \* the response returned for it
    calls,                \* the upstream calls made while handling it, in order
    before,               \* the table as it was when that request arrived
    deleted,              \* the ids removed by some DELETE so far
    served                \* the number of requests handled so far

vars == <<records, clock, GOOGLE_MAPS_API_KEY, request, response, calls, before,
          deleted, served>>

\* Bounds of the model.
MaxRequests == 3
MaxPlaces == 2

----------------------------------------------------------------------------
\* JSON / Python values.  A key missing from a JSON object reads as Absent.
Absent == [tag |-> "absent"]
Null == [tag |-> "null"]
Num(n) == [tag |-> "num", n |-> n]
Str(s) == [tag |-> "str", s |-> s]

Min(a, b) == IF a <= b THEN a ELSE b
Max(a, b) == IF a >= b THEN a ELSE b
Range(s) == {s[i] : i \in 1..Len(s)}

\* Python truthiness, as used by `if not location` and `if not lat or not lon`:
\* None, the empty string and the number zero are false.
Truthy(v) ==
    CASE v.tag = "str" -> v.s # ""
      [] v.tag = "num" -> v.n # 0
      [] OTHER -> FALSE

\* dict.get(key, default): the default only when the key is missing.
DictGet(v, default) == IF v = Absent THEN default ELSE v

\* The decimal strings the model's requests use, with their values.
Decimal == [s \in {"3"} |-> 3]

\* int(x): a number is kept, a decimal string is parsed, anything else raises
\* (ValueError for a non-numeric string, TypeError for None).
PyInt(v) ==
    CASE v.tag = "num" -> [raised |-> FALSE, n |-> v.n]
      [] v.tag = "str" /\ v.s \in DOMAIN Decimal -> [raised |-> FALSE, n |-> Decimal[v.s]]
      [] OTHER -> [raised |-> TRUE, n |-> 0]

\* s[:count]: the first count items, and for a negative count all but the
\* last -count items.
PySlice(s, count) ==
    IF count >= 0 THEN SubSeq(s, 1, Min(count, Len(s)))
    ELSE SubSeq(s, 1, Max(Len(s) + count, 0))

----------------------------------------------------------------------------
\* Responses.
Json(status, body) == [status |-> status, json |-> TRUE, body |-> body]
\* An exception that leaves the view function: Flask answers 500 with its
\* own HTML error page.
Unhandled(exc) == [status |-> 500, json |-> FALSE, body |-> [exception |-> exc]]
\* get_or_404 aborts with werkzeug's NotFound.
NotFound == [status |-> 404, json |-> FALSE, body |-> [exception |-> "NotFound"]]
Raw(contentType, body) == [status |-> 200, json |-> FALSE, body |-> body, type |-> contentType]

Call(api, out) == [api |-> api, out |-> out]

----------------------------------------------------------------------------
\* The table.
Ids(recs) == {recs[i].id : i \in 1..Len(recs)}

\* The id SQLite gives a new row of a table whose key is INTEGER PRIMARY KEY
\* without AUTOINCREMENT: one more than the largest id in the table.
NextId(recs) ==
    IF recs = <<>> THEN 1
    ELSE (CHOOSE m \in Ids(recs) : \A i \in Ids(recs) : i <= m) + 1

WeatherRecord(id, location, lat, lon, date, temp, desc, hum, wind, created) ==
    [id |-> id, location |-> location, latitude |-> lat, longitude |-> lon,
     date |-> date, temperature |-> temp, description |-> desc,
     humidity |-> hum, wind_speed |-> wind, created_at |-> created]

----------------------------------------------------------------------------
\* What the upstream services can answer.
GeoOutcomes ==
    {[kind |-> "error"], [kind |-> "none"]} \cup
    {[kind |-> "match", latitude |-> c[1], longitude |-> c[2]] :
        c \in {<<48, 2>>, <<0, 2>>, <<48, 0>>}}

GoodPayload ==
    [main |-> [temp |-> 18, humidity |-> 60],
     weather |-> <<[description |-> "clear sky"]>>,
     wind |-> [speed |-> 3]]
BadPayload == [cod |-> 401, message |-> "Invalid API key"]

WeatherOutcomes ==
    {[kind |-> "error"], [kind |-> "ok", json |-> GoodPayload],
     [kind |-> "ok", json |-> BadPayload]}

ForecastOutcomes == {[kind |-> "error"], [kind |-> "ok", json |-> [cnt |-> 40]]}

Places == [i \in 1..MaxPlaces |-> i]
PlacesOutcomes ==
    {[kind |-> "error"], [kind |-> "ok", json |-> [status |-> "REQUEST_DENIED"]]} \cup
    {[kind |-> "ok", json |-> [results |-> SubSeq(Places, 1, n)]] : n \in 0..MaxPlaces}

\* The bodies of POST /api/weather.
WeatherBodies ==
    [location : {Absent, Str(""), Str("Paris")},
     forecastDays : {Absent, Str("3"), Str("abc")},
     placesCount : {Absent, Num(1), Num(-1), Str("abc")}]

\* The bodies of PUT /api/records/<id>.
UpdateBodies ==
    {[location |-> l, temperature |-> t, description |-> d, id |-> x[1], humidity |-> x[2]] :
        l \in {Absent, Null, Str("Rome")}, t \in {Absent, Num(25)},
        d \in {Absent, Str("X")}, x \in {<<Absent, Absent>>, <<Num(7), Num(99)>>}}

Formats == {"json", "csv", "pdf", "xml"}

----------------------------------------------------------------------------
\* Helper functions.

\* get_coordinates: the coordinates of the match, or (None, None).
get_coordinates(geo) ==
    IF geo.kind = "match" THEN <<Num(geo.latitude), Num(geo.longitude)>>
    ELSE <<Null, Null>>

\* A faulty PlacesRaises: a failure of the places call is swallowed.
PlacesNeverRaises(p) == FALSE

\* requests.get(...) / response.json() of the places call raise.
PlacesRaises(p) == p.kind = "error"

\* get_google_maps_data, when the call does not raise.
get_google_maps_data(p, count) ==
    IF ~GOOGLE_MAPS_API_KEY THEN Null
    ELSE IF p.kind = "ok" /\ "results" \in DOMAIN p.json
         THEN [tag |-> "dict", results |-> PySlice(p.json.results, count)]
         ELSE Null

\* The four values the record is built from; a payload without them raises
\* KeyError.
PayloadFields(j) ==
    IF {"main", "weather", "wind"} \subseteq DOMAIN j
    THEN [raised |-> FALSE, temperature |-> Num(j.main.temp),
          description |-> Str(j.weather[1].description),
          humidity |-> Num(j.main.humidity), wind_speed |-> Num(j.wind.speed)]
    ELSE [raised |-> TRUE]

\* The end of get_weather: the response, the upstream calls made on the way,
\* the table and the clock it leaves.
Finish(resp, made, recs, now) ==
    /\ response' = resp
    /\ calls' = made
    /\ records' = recs
    /\ clock' = now

\* The try block of get_weather; made holds the calls made before it.  The
\* record takes its date when it is built and its created_at when it is
\* flushed, no earlier.
get_weather_try(location, lat, lon, places_count, made) ==
    \E w \in WeatherOutcomes :
      LET cw == made \o <<Call("weather", w)>>
      IN  IF w.kind = "error"
          THEN Finish(Json(500, [error |-> "weather: connection error"]), cw, records, clock)
          ELSE \E f \in ForecastOutcomes :
            LET cf == cw \o <<Call("forecast", f)>>
            IN  IF f.kind = "error"
                THEN Finish(Json(500, [error |-> "forecast: connection error"]), cf,
                            records, clock)
                ELSE \E p \in IF GOOGLE_MAPS_API_KEY THEN PlacesOutcomes ELSE {Null} :
                  LET cp == IF GOOGLE_MAPS_API_KEY THEN cf \o <<Call("places", p)>> ELSE cf
                      v == PayloadFields(w.json)
                  IN  IF GOOGLE_MAPS_API_KEY /\ PlacesRaises(p)
                      THEN Finish(Json(500, [error |-> "places: connection error"]), cp,
                                  records, clock)
                      ELSE IF v.raised
                      THEN Finish(Json(500, [error |-> "'main'"]), cp, records, clock)
                      ELSE \E later \in {clock, clock + 1} :
                             Finish(Json(200, [current |-> w.json, forecast |-> f.json,
                                               places |-> get_google_maps_data(p, places_count)]),
                                    cp,
                                    Append(records,
                                           WeatherRecord(NextId(records), location, lat, lon,
                                                         clock, v.temperature, v.description,
                                                         v.humidity, v.wind_speed, later)),
                                    later)

\* The view function get_weather.
get_weather ==
    /\ served < MaxRequests
    /\ \E data \in WeatherBodies :
          /\ request' = [op |-> "get_weather", data |-> data]
          /\ LET location == DictGet(data.location, Null)
                 forecast_days == PyInt(DictGet(data.forecastDays, Num(5)))
                 places_count == PyInt(DictGet(data.placesCount, Num(5)))
             IN  IF forecast_days.raised \/ places_count.raised
                 THEN Finish(Unhandled("ValueError"), <<>>, records, clock)
                 ELSE IF ~Truthy(location)
                 THEN Finish(Json(400, [error |-> "Location is required"]), <<>>,
                             records, clock)
                 ELSE \E geo \in GeoOutcomes :
                        LET cg == <<Call("geocode", geo)>>
                            ll == get_coordinates(geo)
                        IN  IF geo.kind = "error"
                            THEN Finish(Unhandled("GeocoderServiceError"), cg, records, clock)
                            ELSE IF ~Truthy(ll[1]) \/ ~Truthy(ll[2])
                            THEN Finish(Json(404, [error |-> "Could not find location"]),
                                        cg, records, clock)
                            ELSE get_weather_try(location, ll[1], ll[2], places_count.n, cg)
    /\ before' = records
    /\ served' = served + 1
    /\ UNCHANGED <<GOOGLE_MAPS_API_KEY, deleted>>

----------------------------------------------------------------------------
\* query.order_by(created_at.desc()).all(): the rows, newest first; rows with
\* equal created_at come in an order the database chooses.
Ordered(recs) ==
    LET n == Len(recs)
        perms == {q \in [1..n -> 1..n] : \A i, j \in 1..n : i # j => q[i] # q[j]}
    IN  {[i \in 1..n |-> recs[q[i]]] : q \in
            {q \in perms : \A i, j \in 1..n :
                i < j => recs[q[i]].created_at >= recs[q[j]].created_at}}

ListRow(r) ==
    [id |-> r.id, location |-> r.location, date |-> [isoformat |-> r.date],
     temperature |-> r.temperature, description |-> r.description,
     humidity |-> r.humidity, wind_speed |-> r.wind_speed]

get_records ==
    /\ served < MaxRequests
    /\ \E rows \in Ordered(records) :
          response' = Json(200, [list |-> [i \in 1..Len(rows) |-> ListRow(rows[i])]])
    /\ request' = [op |-> "get_records"]
    /\ calls' = <<>>
    /\ before' = records
    /\ served' = served + 1
    /\ UNCHANGED <<records, clock, GOOGLE_MAPS_API_KEY, deleted>>

\* A faulty Patch: description is assigned without its `in data` test, as
\* data.get('description') would.
PatchNoPresenceTest(record, data) ==
    [record EXCEPT
        !.location = IF data.location # Absent THEN data.location ELSE @,
        !.temperature = IF data.temperature # Absent THEN data.temperature ELSE @,
        !.description = DictGet(data.description, Null)]

\* A faulty Patch: an id key of the body is assigned too.
PatchWithId(record, data) ==
    [record EXCEPT
        !.id = IF data.id # Absent THEN data.id.n ELSE @,
        !.location = IF data.location # Absent THEN data.location ELSE @,
        !.temperature = IF data.temperature # Absent THEN data.temperature ELSE @,
        !.description = IF data.description # Absent THEN data.description ELSE @]

\* The three assignments of update_record, each under its `in data` test.
Patch(record, data) ==
    [record EXCEPT
        !.location = IF data.location # Absent THEN data.location ELSE @,
        !.temperature = IF data.temperature # Absent THEN data.temperature ELSE @,
        !.description = IF data.description # Absent THEN data.description ELSE @]

\* location is declared nullable=False: the commit of a row without one
\* raises IntegrityError and the transaction is rolled back.
CommitRaises(row) == row.location = Null

\* The ids a request path can name: those of the table and missing ones.
PathIds == 1..NextId(records)

update_record ==
    /\ served < MaxRequests
    /\ \E id \in PathIds, data \in UpdateBodies :
          /\ request' = [op |-> "update_record", id |-> id, data |-> data]
          /\ IF id \notin Ids(records)
             THEN /\ response' = NotFound
                  /\ records' = records
             ELSE LET i == CHOOSE k \in 1..Len(records) : records[k].id = id
                      row == Patch(records[i], data)
                  IN  IF CommitRaises(row)
                      THEN /\ response' = Unhandled("IntegrityError")
                           /\ records' = records
                      ELSE /\ response' = Json(200, [message |-> "Record updated successfully"])
                           /\ records' = [records EXCEPT ![i] = row]
    /\ calls' = <<>>
    /\ before' = records
    /\ served' = served + 1
    /\ UNCHANGED <<clock, GOOGLE_MAPS_API_KEY, deleted>>

\* A faulty DeleteRow: the rows of smaller ids go with it.
DeleteRowAndBelow(recs, id) == SelectSeq(recs, LAMBDA r : r.id > id)

\* db.session.delete(record): the table without the row of that id.
DeleteRow(recs, id) == SelectSeq(recs, LAMBDA r : r.id # id)

delete_record ==
    /\ served < MaxRequests
    /\ \E id \in PathIds :
          /\ request' = [op |-> "delete_record", id |-> id]
          /\ IF id \notin Ids(records)
             THEN /\ response' = NotFound
                  /\ records' = records
                  /\ deleted' = deleted
             ELSE /\ response' = Json(200, [message |-> "Record deleted successfully"])
                  /\ records' = DeleteRow(records, id)
                  /\ deleted' = deleted \cup {id}
    /\ calls' = <<>>
    /\ before' = records
    /\ served' = served + 1
    /\ UNCHANGED <<clock, GOOGLE_MAPS_API_KEY>>

Columns ==
    <<"Location", "Date", "Temperature (C)", "Description", "Humidity (%)",
      "Wind Speed (m/s)">>

ExportRow(r) ==
    <<r.location, [strftime |-> r.date], r.temperature, r.description, r.humidity,
      r.wind_speed>>

\* The body of export_data for one format, given the exported rows.
Export(format, data) ==
    CASE format = "json" -> Json(200, [rows |-> data])
      [] format = "csv" ->
            Raw("text/csv",
                [header |-> IF data = <<>> THEN <<>> ELSE Columns, rows |-> data])
      [] format = "pdf" ->
            IF data = <<>> THEN Unhandled("IndexError")
            ELSE Raw("application/pdf", [table |-> <<Columns>> \o data])
      [] OTHER -> Json(400, [error |-> "Invalid format"])

export_data ==
    /\ served < MaxRequests
    /\ \E format \in Formats, rows \in Ordered(records) :
          /\ request' = [op |-> "export_data", format |-> format]
          /\ response' = Export(format, [i \in 1..Len(rows) |-> ExportRow(rows[i])])
    /\ calls' = <<>>
    /\ before' = records
    /\ served' = served + 1
    /\ UNCHANGED <<records, clock, GOOGLE_MAPS_API_KEY, deleted>>

----------------------------------------------------------------------------
Init ==
    /\ records = <<>>
    /\ clock = 0
    /\ GOOGLE_MAPS_API_KEY \in BOOLEAN
    /\ request = [op |-> "none"]
    /\ response = [status |-> 0, json |-> FALSE, body |-> [none |-> TRUE]]
    /\ calls = <<>>
    /\ before = <<>>
    /\ deleted = {}
    /\ served = 0

Next ==
    \/ get_weather
    \/ get_records
    \/ update_record
    \/ delete_record
    \/ export_data

Spec == Init /\ [][Next]_vars

----------------------------------------------------------------------------
\* Vocabulary of the properties.

IsLookup == request.op = "get_weather"
CallNames == [i \in 1..Len(calls) |-> calls[i].api]

\* An upstream call that failed: a transport error, or a current-weather
\* answer without the fields the record is built from.
FailedCall(c) ==
    \/ c.out.kind = "error"
    \/ c.api = "weather" /\ ~({"main", "weather", "wind"} \subseteq DOMAIN c.out.json)

NoCallFailed == \A i \in 1..Len(calls) : ~FailedCall(calls[i])
GeocoderMatched == calls # <<>> /\ calls[1].api = "geocode" /\ calls[1].out.kind = "match"
LocationGiven == Truthy(DictGet(request.data.location, Null))
Gained == Len(records) > Len(before) \/ ~(Ids(records) \subseteq Ids(before))
ErrorBody(msg) == [error |-> msg]

\* C1: a lookup with a non-empty location whose geocoding, current-weather,
\* forecast and places calls all succeed adds exactly one record, leaves the
\* earlier ones as they were, stores the location of the request and the
\* four values of the current-weather answer, and answers 200 with the keys
\* current, forecast and places.
C1_LookupStoresRecord ==
    (IsLookup /\ LocationGiven /\ GeocoderMatched /\ NoCallFailed) =>
        /\ Len(records) = Len(before) + 1
        /\ SubSeq(records, 1, Len(before)) = before
        /\ response.status = 200
        /\ response.json
        /\ DOMAIN response.body = {"current", "forecast", "places"}
        /\ LET new == records[Len(records)]
               current == calls[2].out.json
           IN  /\ new.location = request.data.location
               /\ new.temperature = Num(current.main.temp)
               /\ new.description = Str(current.weather[1].description)
               /\ new.humidity = Num(current.main.humidity)
               /\ new.wind_speed = Num(current.wind.speed)

\* C2: the table gains a record only in a lookup whose geocoder, current
\* weather, forecast and places calls were made in that order and all
\* succeeded (the places call is not made when no key is configured); a
\* lookup answered 400, 404 or 500 leaves the table as it was.
C2_RecordOnlyAfterAllCalls ==
    /\ Gained =>
          /\ IsLookup
          /\ response.status = 200
          /\ CallNames = IF GOOGLE_MAPS_API_KEY
                         THEN <<"geocode", "weather", "forecast", "places">>
                         ELSE <<"geocode", "weather", "forecast">>
          /\ GeocoderMatched
          /\ NoCallFailed
    /\ (IsLookup /\ response.status \in {400, 404, 500}) => records = before

\* A lookup whose places call fails, on a table that holds a record.
C2_Witness ==
    /\ IsLookup
    /\ response.status = 500
    /\ Len(calls) = 4
    /\ calls[4].api = "places"
    /\ calls[4].out.kind = "error"
    /\ before # <<>>
    /\ records = before

Untouched == {"id", "latitude", "longitude", "date", "humidity", "wind_speed", "created_at"}
Supplied(old, new) == IF new = Absent THEN old ELSE new

\* The effect of a PUT on row i of the table, as the claim describes it.
PutEffect(i) ==
    IF before[i].id # request.id THEN records[i] = before[i]
    ELSE /\ records[i].location = Supplied(before[i].location, request.data.location)
         /\ records[i].temperature = Supplied(before[i].temperature, request.data.temperature)
         /\ records[i].description = Supplied(before[i].description, request.data.description)
         /\ \A f \in Untouched : records[i][f] = before[i][f]

IsPutOfExisting == request.op = "update_record" /\ request.id \in Ids(before)

IsDelete == request.op = "delete_record"

\* What one DELETE or PUT does to the table and answers, and what a list
\* shows.
DeleteEffect ==
    /\ (IsDelete /\ request.id \in Ids(before)) =>
          /\ response.status = 200
          /\ request.id \notin Ids(records)
          /\ Len(records) = Len(before) - 1
          /\ \A b \in Range(before) : b.id # request.id => b \in Range(records)
          /\ Range(records) \subseteq Range(before)
    /\ (request.op \in {"delete_record", "update_record"} /\ request.id \notin Ids(before)) =>
          /\ response.status = 404
          /\ records = before
    /\ request.op = "get_records" =>
          {response.body.list[i].id : i \in 1..Len(response.body.list)} = Ids(records)

\* C4: a DELETE of an existing id removes that record and no other; a DELETE
\* or PUT of an id that is not in the table (a repeated DELETE too) answers
\* 404 and changes nothing; a list shows the ids of the table; and an id that
\* is not in the table stays out of it until a later lookup inserts a record,
\* which is given the freed id again when that was the largest.
C4_DeleteRemoves ==
    /\ DeleteEffect
    /\ ~IsLookup => Ids(records) \subseteq Ids(before)

\* C4 as first stated: an id once deleted is in no later list, and a later
\* DELETE of it is answered 404.
C4_Original ==
    /\ DeleteEffect
    /\ \A id \in deleted : id \notin Ids(records)

\* A second DELETE of an id deleted before.
C4_Witness ==
    /\ IsDelete
    /\ request.id \in deleted
    /\ request.id \notin Ids(before)
    /\ response.status = 404

\* C5: an export as json, csv or pdf completes for every table, the empty
\* one included.
C5_ExportCompletes ==
    (request.op = "export_data" /\ request.format \in {"json", "csv", "pdf"}) =>
        response.status = 200

\* C6: a lookup without a location, or with an empty one, is answered 400
\* "Location is required" whatever forecastDays and placesCount are, with no
\* upstream call and no record stored.
C6_LocationRequired ==
    (IsLookup /\ ~LocationGiven) =>
        /\ response = Json(400, ErrorBody("Location is required"))
        /\ calls = <<>>
        /\ records = before

\* C7: every failure of an upstream call in a lookup reaches the caller as a
\* 500 response with a JSON {error: message} body.
C7_FailuresSurfaceAs500 ==
    (IsLookup /\ ~NoCallFailed) =>
        /\ response.status = 500
        /\ response.json
        /\ DOMAIN response.body = {"error"}

\* C8: no two records of the table share an id, and every record the last
\* request did not delete is still there with its id and its created_at.
C8_IdsUniqueAndFrozen ==
    /\ \A i, j \in 1..Len(records) : i # j => records[i].id # records[j].id
    /\ \A b \in Range(before) :
          \/ IsDelete /\ request.id = b.id /\ b.id \notin Ids(records)
          \/ \E r \in Range(records) : r.id = b.id /\ r.created_at = b.created_at

\* A PUT that names an id key in its body, on a table of two records.
C8_Witness ==
    /\ request.op = "update_record"
    /\ response.status = 200
    /\ Len(records) = 2
    /\ request.data.id # Absent

\* C9: a lookup that reaches the geocoder is answered 404 "Could not find
\* location" exactly when the geocoder returns no match.
C9_NotFoundIffNoMatch ==
    (IsLookup /\ calls # <<>>) =>
        ((response = Json(404, ErrorBody("Could not find location")))
            <=> calls[1].out.kind = "none")

\* C10: the places operation returns the first count results of the provider
\* (all of them when there are fewer), never more than count; without a key
\* it makes no call and returns null, and the lookup still stores its record.
C10_PlacesTruncated ==
    /\ (IsLookup /\ response.status = 200 /\ GOOGLE_MAPS_API_KEY
            /\ "results" \in DOMAIN calls[4].out.json) =>
          LET count == PyInt(DictGet(request.data.placesCount, Num(5))).n
              all == calls[4].out.json.results
              got == response.body.places.results
          IN  /\ Len(got) <= count
              /\ Len(got) = Min(count, Len(all))
              /\ got = SubSeq(all, 1, Len(got))
    /\ (IsLookup /\ ~GOOGLE_MAPS_API_KEY) =>
          /\ \A i \in 1..Len(calls) : calls[i].api # "places"
          /\ (Len(calls) = 3 /\ NoCallFailed) =>
                /\ response.status = 200
                /\ response.body.places = Null
                /\ Len(records) = Len(before) + 1

====
